---- MODULE Spec2Model ----
(***************************************************************************)
(* boost::process::system (include/boost/process/system.hpp): launch a     *)
(* child process, wait for its exit by one of four strategies chosen by    *)
(* tag dispatch on (needs io_service, has io_service), return its exit     *)
(* code, or -1 when the child could not be created.                        *)
(*                                                                         *)
(* One behaviour is one call of system().  The child process, the          *)
(* io_service and the threads of the caller are the environment: the       *)
(* process exits at any time with any code, the completion of the child's  *)
(* asynchronous wait becomes a ready handler of the io_service the child   *)
(* was given, other work is posted to the caller's io_service at any time, *)
(* and, when the caller runs its io_service on another thread, that thread *)
(* executes ready handlers between any two steps of the call.              *)
(***************************************************************************)
EXTENDS Integers, Sequences, FiniteSets

\* Exit codes range over -MaxCode..MaxCode (exit_code() returns an int).
MaxCode == 2
\* Work items unrelated to the call that the caller posts to its io_service.
MaxOther == 2
\* ios.poll() calls are counted up to MaxPoll; the loop itself is not bounded.
MaxPoll == 2
\* Options of one call.
MaxOpts == 3
\* Completion notifications the child layer delivers for one process.
MaxNotify == 2
\* Ready handlers the supplied io_service holds when work never stops coming.
MaxQueue == 3

\* system.hpp:58,75,90,107  return -1;
Sentinel == -1

ExitCodes == (0 - MaxCode)..MaxCode

\* The child's stored exit status before any wait has observed the exit.
Unobserved == MaxCode + 1
\* The call has not returned a value yet.
NoRet == MaxCode + 2

VARIABLES
    opts,      \* the options the caller passes, in order; consumed by the call
    pc,        \* position of the call
    need_ios,  \* needs_io_service<Args...>: some option is asynchronous
    has_ios,   \* has_io_service<Args...>: an io_service is among the options
    handler,   \* the options hold a caller's on_exit handler h
    token,     \* the options hold a yield context
    driver,    \* the caller runs the supplied io_service on another thread
    impl,      \* the system_impl overload the dispatch selected
    valid,     \* c.valid()
    pstate,    \* the child process: "none", "running", "exited"
    pcode,     \* the exit code the process exited with
    status,    \* the exit status stored in the child handle c
    exited,    \* std::atomic_bool exited of system_impl<true,true>
    iosQ,      \* ready handlers of the supplied io_service
    waitOn,    \* io_service holding the child's outstanding asynchronous wait
    own,       \* the io_service of system_impl<true,false>: "none", "alive", "destroyed"
    ownQ,      \* ready handlers of the owned io_service
    hCalls,    \* exit codes h was invoked with, in order
    hookRuns,  \* executions of the on_exit lambda of system_impl<true,true>
    nResume,   \* resumptions of the yield context by that lambda
    notified,  \* completion notifications delivered for the child
    lateWrites, \* stores to exited executed after the call returned
    nPost,     \* ios.post calls made by that lambda
    nPoll,     \* ios.poll() calls of the call (counted up to MaxPoll)
    nRun,      \* ios.run() calls of the call
    nWait,     \* c.wait() calls of the call
    nRead,     \* c.exit_code() calls of the call
    nChild,    \* child objects constructed by the call
    otherLeft, \* unrelated work items the caller may still post
    ret        \* the value system() returned

vars == <<opts, pc, need_ios, has_ios, handler, token, driver, impl, valid,
          pstate, pcode, status, exited, iosQ, waitOn, own, ownQ, hCalls,
          hookRuns, nResume, notified, lateWrites, nPost, nPoll, nRun, nWait,
          nRead, nChild, otherLeft, ret>>

\* The kinds of option the call tells apart: the program to start, an
\* io_service, an on_exit handler, a yield context, another asynchronous
\* property.
OptionKinds == {"exe", "ios", "on_exit", "yield", "async"}

\* The option lists of a call: at most one io_service among them.
OptionSets ==
    {o \in UNION {[1..n -> OptionKinds] : n \in 0..MaxOpts} :
        Cardinality({i \in DOMAIN o : o[i] = "ios"}) <= 1}

Init ==
    /\ opts \in OptionSets
    /\ pc = "idle"
    /\ need_ios = FALSE
    /\ has_ios = FALSE
    /\ handler = FALSE
    /\ token = FALSE
    /\ driver = FALSE
    /\ impl = "none"
    /\ valid = FALSE
    /\ pstate = "none"
    /\ pcode = Unobserved
    /\ status = Unobserved
    /\ exited = FALSE
    /\ iosQ = <<>>
    /\ waitOn = "none"
    /\ own = "none"
    /\ ownQ = <<>>
    /\ hCalls = <<>>
    /\ hookRuns = 0
    /\ nResume = 0
    /\ notified = 0
    /\ lateWrites = 0
    /\ nPost = 0
    /\ nPoll = 0
    /\ nRun = 0
    /\ nWait = 0
    /\ nRead = 0
    /\ nChild = 0
    /\ otherLeft = MaxOther
    /\ ret = NoRet

inputs == <<opts, need_ios, has_ios, handler, token, driver, impl>>
hooks == <<hookRuns, nResume, notified, lateWrites>>
process == <<pstate, pcode>>
calls == <<nPoll, nRun, nWait, nRead, nChild>>
owned == <<own, ownQ>>

(***************************************************************************)
(* system(): the dispatch.                                                 *)
(***************************************************************************)

\* Mutation: the dispatch looks at need_ios only.
SelectIgnoresHas(n, h) ==
    IF n THEN "TF" ELSE "FF"

\* The overload chosen by the tags need_ios(), has_ios().
Select(n, h) ==
    IF n THEN (IF h THEN "TT" ELSE "TF")
         ELSE (IF h THEN "FT" ELSE "FF")

\* needs_io_service<Args...>: some option is asynchronous (an on_exit
\* handler, a yield context, another asynchronous property).
RECURSIVE NeedsIoService(_)
NeedsIoService(o) ==
    IF o = <<>> THEN FALSE
    ELSE Head(o) \in {"on_exit", "yield", "async"} \/ NeedsIoService(Tail(o))

\* has_io_service<Args...>: some option is an io_service.
RECURSIVE HasIoService(_)
HasIoService(o) ==
    IF o = <<>> THEN FALSE
    ELSE Head(o) = "ios" \/ HasIoService(Tail(o))

\* Whether the option list o holds an option of kind k.
Holds(o, k) ==
    \E i \in 1..Len(o) : o[i] = k

\* Mutation: the tags are computed from the first option alone.
DispatchOnFirstOption(o) ==
    IF o = <<>> THEN "FF"
    ELSE Select(NeedsIoService(<<Head(o)>>), HasIoService(<<Head(o)>>))

\* system(args...): the overload entered for the option list o.
Dispatch(o) ==
    Select(NeedsIoService(o), HasIoService(o))

\* system(args...): classify the options and enter the selected overload,
\* forwarding the options to it.  Another thread can run the io_service
\* only when the caller has one.
System ==
    /\ pc = "idle"
    /\ need_ios' = NeedsIoService(opts)
    /\ has_ios' = HasIoService(opts)
    /\ handler' = Holds(opts, "on_exit")
    /\ token' = Holds(opts, "yield")
    /\ impl' = Dispatch(opts)
    /\ \E d \in BOOLEAN :
        /\ d => HasIoService(opts)
        /\ driver' = d
    /\ opts' = <<>>
    /\ pc' = "entry"
    /\ UNCHANGED <<valid, pstate, pcode, status, exited, iosQ, waitOn, own,
                   ownQ, hCalls, hooks, nPost, nPoll, nRun, nWait, nRead,
                   nChild, otherLeft, ret>>

(***************************************************************************)
(* The collaborators: the child process and the io_service.                *)
(***************************************************************************)

\* The running process exits with some code.
ProcessExit ==
    /\ pstate = "running"
    /\ \E k \in ExitCodes : pcode' = k
    /\ pstate' = "exited"
    /\ UNCHANGED <<pc, inputs, valid, status, exited, iosQ, waitOn, owned,
                   hCalls, hooks, nPost, calls, otherLeft, ret>>

\* The child's asynchronous wait completes once the process has exited: its
\* completion handler becomes a ready handler of the io_service it was
\* started on.
WaitComplete ==
    /\ pstate = "exited"
    /\ waitOn # "none"
    /\ waitOn' = "none"
    /\ notified' = notified + 1
    /\ IF waitOn = "caller"
          THEN /\ iosQ' = Append(iosQ, "onexit")
               /\ ownQ' = ownQ
          ELSE /\ ownQ' = Append(ownQ, "onexit")
               /\ iosQ' = iosQ
    /\ UNCHANGED <<pc, inputs, valid, process, status, exited, own, hCalls,
                   hookRuns, nResume, lateWrites, nPost, calls, otherLeft, ret>>

\* The caller (or a handler of its own) posts unrelated work to its
\* io_service.
PostOther ==
    /\ has_ios
    /\ otherLeft > 0
    /\ otherLeft' = otherLeft - 1
    /\ iosQ' = Append(iosQ, "other")
    /\ UNCHANGED <<pc, inputs, valid, process, status, exited, waitOn, owned,
                   hCalls, hooks, nPost, calls, ret>>

\* Mutation: the lambda posts nothing.
OnExitLambdaPostsNothing(q) ==
    q

\* Mutation: the lambda posts the store twice.
OnExitLambdaPostsTwice(q) ==
    Append(Append(q, "set"), "set")

\* [&](int exit_code, const std::error_code&) { ios.post([&]{exited.store(true);}); }
\* applied to the supplied io_service's queue q.
OnExitLambda(q) ==
    Append(q, "set")

\* The supplied io_service executes its first ready handler.  The completion
\* handler of the child's wait stores the exit status in the child handle
\* and invokes the on_exit handlers: the caller's h, then the lambda of
\* system_impl<true,true>, which posts the store and resumes nothing.  The
\* posted store writes the flag; once the call has returned the flag is a
\* dead local and the write through the dangling reference has no defined
\* outcome.
ExecSupplied ==
    LET it == Head(iosQ)
        rest == Tail(iosQ)
    IN  /\ iosQ # <<>>
        /\ status' = IF it = "onexit" THEN pcode ELSE status
        /\ hCalls' = IF it = "onexit" /\ handler THEN Append(hCalls, pcode)
                                                 ELSE hCalls
        /\ iosQ' = IF it = "onexit" THEN OnExitLambda(rest) ELSE rest
        /\ nPost' = IF it = "onexit"
                        THEN nPost + (Len(OnExitLambda(rest)) - Len(rest))
                        ELSE nPost
        /\ hookRuns' = IF it = "onexit" THEN hookRuns + 1 ELSE hookRuns
        /\ nResume' = nResume
        /\ notified' = notified
        /\ IF it = "set" /\ pc = "done"
              THEN /\ lateWrites' = lateWrites + 1
                   /\ exited' \in BOOLEAN
              ELSE /\ lateWrites' = lateWrites
                   /\ exited' = IF it = "set" THEN TRUE ELSE exited

\* The owned io_service executes its first ready handler.
ExecOwned ==
    LET it == Head(ownQ)
    IN  /\ ownQ # <<>>
        /\ status' = IF it = "onexit" THEN pcode ELSE status
        /\ hCalls' = IF it = "onexit" /\ handler THEN Append(hCalls, pcode)
                                                 ELSE hCalls
        /\ ownQ' = Tail(ownQ)

\* Another thread of the caller, running the supplied io_service, executes
\* a ready handler.
OtherDriver ==
    /\ driver
    /\ ExecSupplied
    /\ UNCHANGED <<pc, inputs, valid, process, waitOn, owned, calls,
                   otherLeft, ret>>

\* After the call has returned, the caller drains its io_service.
LaterDrain ==
    /\ pc = "done"
    /\ has_ios
    /\ ExecSupplied
    /\ UNCHANGED <<pc, inputs, valid, process, waitOn, owned, calls,
                   otherLeft, ret>>

\* The process layer delivers the completion of the child's wait once more
\* to the supplied io_service.
DuplicateNotify ==
    /\ impl = "TT"
    /\ notified >= 1
    /\ notified < MaxNotify
    /\ notified' = notified + 1
    /\ iosQ' = Append(iosQ, "onexit")
    /\ UNCHANGED <<pc, inputs, valid, process, status, exited, waitOn, owned,
                   hCalls, hookRuns, nResume, lateWrites, nPost, calls,
                   otherLeft, ret>>

\* Unrelated work keeps being posted to the caller's io_service, without
\* end; the queue holds at most MaxQueue handlers.
PostOtherForever ==
    /\ has_ios
    /\ Len(iosQ) < MaxQueue
    /\ iosQ' = Append(iosQ, "other")
    /\ UNCHANGED <<pc, inputs, valid, process, status, exited, waitOn, owned,
                   hCalls, hooks, nPost, calls, otherLeft, ret>>

(***************************************************************************)
(* system_impl<true_type, true_type>: needs an io_service and has one.     *)
(***************************************************************************)

\* Mutation: the store is posted when the child is created, not by the
\* on_exit lambda.
TT_CreatePostsAtCreation ==
    /\ pc = "entry"
    /\ impl = "TT"
    /\ exited' = FALSE
    /\ nChild' = nChild + 1
    /\ iosQ' = Append(iosQ, "set")
    /\ \E ok \in BOOLEAN :
        /\ valid' = ok
        /\ pstate' = IF ok THEN "running" ELSE "none"
        /\ waitOn' = IF ok THEN "caller" ELSE "none"
    /\ pc' = "check"
    /\ UNCHANGED <<inputs, pcode, status, owned, hCalls, hooks,
                   nPost, nPoll, nRun, nWait, nRead, otherLeft, ret>>

\* std::atomic_bool exited{false}; child c(args..., on_exit(lambda));
\* A created child runs and has its asynchronous wait outstanding on the
\* supplied io_service; a failed creation leaves an invalid child and
\* registers nothing.
TT_Create ==
    /\ pc = "entry"
    /\ impl = "TT"
    /\ exited' = FALSE
    /\ nChild' = nChild + 1
    /\ \E ok \in BOOLEAN :
        /\ valid' = ok
        /\ pstate' = IF ok THEN "running" ELSE "none"
        /\ waitOn' = IF ok THEN "caller" ELSE "none"
    /\ pc' = "check"
    /\ UNCHANGED <<inputs, pcode, status, iosQ, owned, hCalls, hooks,
                   nPost, nPoll, nRun, nWait, nRead, otherLeft, ret>>

\* Mutation: the validity of the child is not tested.
TT_CheckIgnoresValid ==
    /\ pc = "check"
    /\ impl = "TT"
    /\ pc' = "loop"
    /\ UNCHANGED <<inputs, valid, process, status, exited, iosQ, waitOn,
                   owned, hCalls, hooks, nPost, calls, otherLeft, ret>>

\* if (!c.valid()) return -1;
TT_Check ==
    /\ pc = "check"
    /\ impl = "TT"
    /\ IF valid
          THEN /\ pc' = "loop"
               /\ ret' = ret
          ELSE /\ pc' = "done"
               /\ ret' = Sentinel
    /\ UNCHANGED <<inputs, valid, process, status, exited, iosQ, waitOn,
                   owned, hCalls, hooks, nPost, calls, otherLeft>>

\* Mutation: the loop tests the process, not the flag.
TT_LoopTestsProcess ==
    /\ pc = "loop"
    /\ IF pstate = "exited"
          THEN /\ pc' = "ret"
               /\ nPoll' = nPoll
          ELSE /\ pc' = "poll"
               /\ nPoll' = IF nPoll < MaxPoll THEN nPoll + 1 ELSE nPoll
    /\ UNCHANGED <<inputs, valid, process, status, exited, iosQ, waitOn,
                   owned, hCalls, hooks, nPost, nRun, nWait, nRead,
                   nChild, otherLeft, ret>>

\* Mutation: the loop gives up after MaxPoll polls.
TT_LoopGivesUp ==
    /\ pc = "loop"
    /\ IF exited \/ nPoll = MaxPoll
          THEN /\ pc' = "ret"
               /\ nPoll' = nPoll
          ELSE /\ pc' = "poll"
               /\ nPoll' = nPoll + 1
    /\ UNCHANGED <<inputs, valid, process, status, exited, iosQ, waitOn,
                   owned, hCalls, hooks, nPost, nRun, nWait, nRead,
                   nChild, otherLeft, ret>>

\* while (!exited.load()) ios.poll();   the test, and the call of poll
TT_Loop ==
    /\ pc = "loop"
    /\ IF exited
          THEN /\ pc' = "ret"
               /\ nPoll' = nPoll
          ELSE /\ pc' = "poll"
               /\ nPoll' = IF nPoll < MaxPoll THEN nPoll + 1 ELSE nPoll
    /\ UNCHANGED <<inputs, valid, process, status, exited, iosQ, waitOn,
                   owned, hCalls, hooks, nPost, nRun, nWait, nRead,
                   nChild, otherLeft, ret>>

\* ios.poll(): run a ready handler
TT_PollStep ==
    /\ pc = "poll"
    /\ ExecSupplied
    /\ UNCHANGED <<pc, inputs, valid, process, waitOn, owned, calls,
                   otherLeft, ret>>

\* ios.poll(): no handler is ready, poll returns
TT_PollReturn ==
    /\ pc = "poll"
    /\ iosQ = <<>>
    /\ pc' = "loop"
    /\ UNCHANGED <<inputs, valid, process, status, exited, iosQ, waitOn,
                   owned, hCalls, hooks, nPost, calls, otherLeft, ret>>

\* return c.exit_code();
TT_Return ==
    /\ pc = "ret"
    /\ impl = "TT"
    /\ nRead' = nRead + 1
    /\ ret' = status
    /\ pc' = "done"
    /\ UNCHANGED <<inputs, valid, process, status, exited, iosQ, waitOn,
                   owned, hCalls, hooks, nPost, nPoll, nRun, nWait,
                   nChild, otherLeft>>

(***************************************************************************)
(* system_impl<true_type, false_type>: needs an io_service and has none.   *)
(***************************************************************************)

\* Mutation: the child is created without the owned io_service.
TF_CreateWithoutIos ==
    /\ pc = "entry"
    /\ impl = "TF"
    /\ own' = "alive"
    /\ ownQ' = <<>>
    /\ nChild' = nChild + 1
    /\ \E ok \in BOOLEAN :
        /\ valid' = ok
        /\ pstate' = IF ok THEN "running" ELSE "none"
    /\ pc' = "check"
    /\ UNCHANGED <<inputs, pcode, status, exited, iosQ, waitOn, hCalls,
                   hooks, nPost, nPoll, nRun, nWait, nRead, otherLeft, ret>>

\* IoService ios; child c(ios, args...);
\* The child's asynchronous wait is outstanding on the owned io_service.
TF_Create ==
    /\ pc = "entry"
    /\ impl = "TF"
    /\ own' = "alive"
    /\ ownQ' = <<>>
    /\ nChild' = nChild + 1
    /\ \E ok \in BOOLEAN :
        /\ valid' = ok
        /\ pstate' = IF ok THEN "running" ELSE "none"
        /\ waitOn' = IF ok THEN "owned" ELSE "none"
    /\ pc' = "check"
    /\ UNCHANGED <<inputs, pcode, status, exited, iosQ, hCalls, hooks,
                   nPost, nPoll, nRun, nWait, nRead, otherLeft, ret>>

\* Mutation: the io_service is not released on the early return.
TF_CheckLeaksIos ==
    /\ pc = "check"
    /\ impl = "TF"
    /\ IF valid
          THEN /\ pc' = "run"
               /\ ret' = ret
          ELSE /\ pc' = "done"
               /\ ret' = Sentinel
    /\ UNCHANGED <<inputs, valid, process, status, exited, iosQ, waitOn,
                   owned, hCalls, hooks, nPost, calls, otherLeft>>

\* if (!c.valid()) return -1;   leaving the scope destroys ios
TF_Check ==
    /\ pc = "check"
    /\ impl = "TF"
    /\ IF valid
          THEN /\ pc' = "run"
               /\ ret' = ret
               /\ own' = own
          ELSE /\ pc' = "done"
               /\ ret' = Sentinel
               /\ own' = "destroyed"
    /\ UNCHANGED <<inputs, valid, process, status, exited, iosQ, waitOn,
                   ownQ, hCalls, hooks, nPost, calls, otherLeft>>

\* Mutation: the owned io_service is not run.
TF_RunOmitted ==
    /\ pc = "run"
    /\ pc' = "ret"
    /\ UNCHANGED <<inputs, valid, process, status, exited, iosQ, waitOn,
                   owned, hCalls, hooks, nPost, calls, otherLeft, ret>>

\* ios.run();   the call
TF_Run ==
    /\ pc = "run"
    /\ nRun' = nRun + 1
    /\ pc' = "running"
    /\ UNCHANGED <<inputs, valid, process, status, exited, iosQ, waitOn,
                   owned, hCalls, hooks, nPost, nPoll, nWait, nRead,
                   nChild, otherLeft, ret>>

\* ios.run(): run a ready handler
TF_RunStep ==
    /\ pc = "running"
    /\ ExecOwned
    /\ UNCHANGED <<pc, inputs, valid, process, exited, iosQ, waitOn, own,
                   hooks, nPost, calls, otherLeft, ret>>

\* Mutation: run returns as soon as no handler is ready (the behaviour of
\* poll).
TF_RunReturnsLikePoll ==
    /\ pc = "running"
    /\ ownQ = <<>>
    /\ pc' = "ret"
    /\ UNCHANGED <<inputs, valid, process, status, exited, iosQ, waitOn,
                   owned, hCalls, hooks, nPost, calls, otherLeft, ret>>

\* ios.run(): out of work (no ready handler, no outstanding operation), run
\* returns; with an operation outstanding it blocks
TF_RunReturn ==
    /\ pc = "running"
    /\ ownQ = <<>>
    /\ waitOn # "owned"
    /\ pc' = "ret"
    /\ UNCHANGED <<inputs, valid, process, status, exited, iosQ, waitOn,
                   owned, hCalls, hooks, nPost, calls, otherLeft, ret>>

\* return c.exit_code();   leaving the scope destroys ios
TF_Return ==
    /\ pc = "ret"
    /\ impl = "TF"
    /\ nRead' = nRead + 1
    /\ ret' = status
    /\ own' = "destroyed"
    /\ pc' = "done"
    /\ UNCHANGED <<inputs, valid, process, status, exited, iosQ, waitOn,
                   ownQ, hCalls, hooks, nPost, nPoll, nRun, nWait,
                   nChild, otherLeft>>

(***************************************************************************)
(* system_impl<false_type, true_type> and system_impl<false_type,          *)
(* false_type>: no option needs an io_service.  The two bodies differ only *)
(* in the posix signal disposition passed to the child.                    *)
(***************************************************************************)

\* child c(args...);   no asynchronous wait is started
Blocking_Create ==
    /\ pc = "entry"
    /\ impl \in {"FT", "FF"}
    /\ nChild' = nChild + 1
    /\ \E ok \in BOOLEAN :
        /\ valid' = ok
        /\ pstate' = IF ok THEN "running" ELSE "none"
    /\ pc' = "check"
    /\ UNCHANGED <<inputs, pcode, status, exited, iosQ, waitOn, owned,
                   hCalls, hooks, nPost, nPoll, nRun, nWait, nRead,
                   otherLeft, ret>>

\* Mutation: a failed creation is tried again.
Blocking_CheckRetries ==
    /\ pc = "check"
    /\ impl \in {"FT", "FF"}
    /\ IF valid THEN pc' = "wait" ELSE pc' = "entry"
    /\ UNCHANGED <<inputs, valid, process, status, exited, iosQ, waitOn,
                   owned, hCalls, hooks, nPost, calls, otherLeft, ret>>

\* if (!c.valid()) return -1;
Blocking_Check ==
    /\ pc = "check"
    /\ impl \in {"FT", "FF"}
    /\ IF valid
          THEN /\ pc' = "wait"
               /\ ret' = ret
          ELSE /\ pc' = "done"
               /\ ret' = Sentinel
    /\ UNCHANGED <<inputs, valid, process, status, exited, iosQ, waitOn,
                   owned, hCalls, hooks, nPost, calls, otherLeft>>

\* Mutation: the wait also polls the supplied io_service.
Blocking_WaitPolls ==
    /\ pc = "wait"
    /\ nWait' = nWait + 1
    /\ nPoll' = IF nPoll < MaxPoll THEN nPoll + 1 ELSE nPoll
    /\ iosQ' = IF iosQ = <<>> THEN iosQ ELSE Tail(iosQ)
    /\ pc' = "waiting"
    /\ UNCHANGED <<inputs, valid, process, status, exited, waitOn,
                   owned, hCalls, hooks, nPost, nRun, nRead,
                   nChild, otherLeft, ret>>

\* c.wait();   the call
Blocking_Wait ==
    /\ pc = "wait"
    /\ nWait' = nWait + 1
    /\ pc' = "waiting"
    /\ UNCHANGED <<inputs, valid, process, status, exited, iosQ, waitOn,
                   owned, hCalls, hooks, nPost, nPoll, nRun, nRead,
                   nChild, otherLeft, ret>>

\* c.wait() blocks until the process has exited and stores its exit status
Blocking_WaitReturn ==
    /\ pc = "waiting"
    /\ pstate = "exited"
    /\ status' = pcode
    /\ pc' = "ret"
    /\ UNCHANGED <<inputs, valid, process, exited, iosQ, waitOn, owned,
                   hCalls, hooks, nPost, calls, otherLeft, ret>>

\* return c.exit_code();
Blocking_Return ==
    /\ pc = "ret"
    /\ impl \in {"FT", "FF"}
    /\ nRead' = nRead + 1
    /\ ret' = status
    /\ pc' = "done"
    /\ UNCHANGED <<inputs, valid, process, status, exited, iosQ, waitOn,
                   owned, hCalls, hooks, nPost, nPoll, nRun, nWait,
                   nChild, otherLeft>>

Next ==
    \/ System
    \/ TT_Create
    \/ TT_Check
    \/ TT_Loop
    \/ TT_PollStep
    \/ TT_PollReturn
    \/ TT_Return
    \/ TF_Create
    \/ TF_Check
    \/ TF_Run
    \/ TF_RunStep
    \/ TF_RunReturn
    \/ TF_Return
    \/ Blocking_Create
    \/ Blocking_Check
    \/ Blocking_Wait
    \/ Blocking_WaitReturn
    \/ Blocking_Return
    \/ ProcessExit
    \/ WaitComplete
    \/ PostOther
    \/ OtherDriver
    \/ LaterDrain

Spec == Init /\ [][Next]_vars

\* The call with a process layer that may deliver a completion twice.
NextDup ==
    \/ Next
    \/ DuplicateNotify

SpecDup == Init /\ [][NextDup]_vars

\* The steps of the thread executing the call.
CallStep ==
    \/ System
    \/ TT_Create \/ TT_Check \/ TT_Loop \/ TT_PollStep \/ TT_PollReturn
    \/ TT_Return
    \/ TF_Create \/ TF_Check \/ TF_Run \/ TF_RunStep \/ TF_RunReturn
    \/ TF_Return
    \/ Blocking_Create \/ Blocking_Check \/ Blocking_Wait
    \/ Blocking_WaitReturn \/ Blocking_Return

\* The call with work posted to the caller's io_service without end; the
\* thread executing the call keeps running.
NextLive ==
    \/ Next
    \/ PostOtherForever

SpecLive == Init /\ [][NextLive]_vars /\ WF_vars(CallStep)

(***************************************************************************)
(* Properties.                                                             *)
(***************************************************************************)

\* C1: when the child could not be created, the call returns -1 and has
\* called none of ios.poll(), ios.run(), c.wait(), c.exit_code().
FailedCreationReturnsSentinelUnwaited ==
    (nChild > 0 /\ ~valid) =>
        /\ nPoll = 0 /\ nRun = 0 /\ nWait = 0 /\ nRead = 0
        /\ pc \in {"check", "done"}
        /\ pc = "done" => ret = Sentinel

\* A failed creation returned while the supplied io_service had ready work.
FailedCreationWitness ==
    /\ pc = "done" /\ ~valid /\ ret = Sentinel
    /\ impl = "TT" /\ iosQ # <<>>

\* C2: each (need_ios, has_ios) pair uses the waiting primitive of its row
\* of the table and no other: (T,T) polls until the flag is set, (T,F)
\* creates an io_service and runs it, (F,T) and (F,F) wait on the child.
StrategyOfTheTable ==
    /\ (need_ios /\ has_ios) =>
          /\ nRun = 0 /\ nWait = 0 /\ own = "none"
          /\ nPoll > 0 => valid
          /\ (pc = "done" /\ valid) => exited
    /\ (need_ios /\ ~has_ios) =>
          /\ nPoll = 0 /\ nWait = 0
          /\ nRun > 0 => own # "none"
          /\ (pc = "done" /\ valid) => (nRun = 1 /\ own = "destroyed")
    /\ ~need_ios =>
          /\ nPoll = 0 /\ nRun = 0 /\ own = "none"
          /\ (pc = "done" /\ valid) => nWait = 1

\* A call with both tags true returned after polling the supplied io_service.
StrategyWitness ==
    /\ pc = "done" /\ need_ios /\ has_ios /\ valid
    /\ nPoll > 0 /\ exited

\* C3: the call returns only after the process has exited or its creation
\* has failed, and after a successful creation it returns the exit code the
\* process exited with; the flag of (T,T) being set, and run() of (T,F)
\* having returned, imply that the process has exited.
ReturnsAfterExit ==
    /\ pc = "done" => (~valid \/ (pstate = "exited" /\ ret = pcode))
    /\ (impl = "TT" /\ exited) => pstate = "exited"
    /\ (impl = "TF" /\ pc = "ret") => pstate = "exited"

\* Own-and-run returned a non-zero exit code of the exited process.
ReturnsAfterExitWitness ==
    /\ pc = "done" /\ impl = "TF" /\ valid
    /\ pstate = "exited" /\ ret = pcode /\ pcode # 0

\* C4: in (T,T) the flag is true, and the loop has read it as true, only
\* after the on_exit lambda has run at least once.
FlagOnlyAfterHook ==
    impl = "TT" =>
        /\ exited => hookRuns >= 1
        /\ pc \in {"ret", "done"} /\ valid => hookRuns >= 1

\* The loop of (T,T) has just read the flag as true.
FlagOnlyAfterHookWitness ==
    /\ impl = "TT" /\ pc = "ret" /\ exited /\ hookRuns = 1

\* C5 as stated: in (T,T), after a successful creation, the call has polled
\* the supplied io_service at least once when it returns, whoever else may
\* run that io_service.
PollsAtLeastOnce ==
    (pc = "done" /\ impl = "TT" /\ valid) => nPoll >= 1

\* C5 amended: in (T,T), after a successful creation, the call has polled
\* the supplied io_service at least once when it returns, provided no other
\* thread runs that io_service; other work may be posted to it at any time.
PollsAtLeastOnceAlone ==
    (pc = "done" /\ impl = "TT" /\ valid /\ ~driver) => nPoll >= 1

\* (T,T) returned, driving the io_service alone, with other work posted.
PollsAtLeastOnceWitness ==
    /\ pc = "done" /\ impl = "TT" /\ valid /\ ~driver
    /\ otherLeft < MaxOther /\ nPoll >= 1

\* C6: the io_service created by (T,F) is destroyed at every return, the
\* early return of -1 included, and no other strategy creates one.
OwnedSchedulerReleased ==
    /\ pc = "done" => own # "alive"
    /\ impl # "TF" => own = "none"
    /\ (impl = "TF" /\ pc = "done") => own = "destroyed"

\* (T,F) returned -1 and its io_service is destroyed.
OwnedSchedulerReleasedWitness ==
    /\ pc = "done" /\ impl = "TF" /\ ~valid
    /\ ret = Sentinel /\ own = "destroyed"

\* C7: when (T,F) returns, its io_service has no ready handler left
\* unexecuted and no operation outstanding.
OwnedSchedulerDrained ==
    (pc = "done" /\ impl = "TF") => (ownQ = <<>> /\ waitOn # "owned")

\* (T,F) returned after its io_service ran the completion handler.
OwnedSchedulerDrainedWitness ==
    /\ pc = "done" /\ impl = "TF" /\ valid
    /\ status = pcode /\ ownQ = <<>> /\ nRun = 1

\* C8: in (T,F) with a caller's handler h and a process exiting with k, h
\* has been invoked exactly once, with k, when the call returns, and the
\* call returns k; h is never invoked twice.
HandlerOnceWithExitCode ==
    /\ Len(hCalls) <= 1
    /\ (pc = "done" /\ impl = "TF" /\ valid /\ handler) =>
          /\ pcode \in ExitCodes
          /\ hCalls = <<pcode>>
          /\ ret = pcode

\* (T,F) with a handler returned 1 after h was invoked with 1.
HandlerOnceWitness ==
    /\ pc = "done" /\ impl = "TF" /\ valid /\ handler
    /\ hCalls = <<1>> /\ ret = 1

\* C9: without an asynchronous option the call waits on the child and never
\* polls, runs or posts to a supplied io_service, nor starts an operation
\* on it: no step of the call changes its queue.
BlockingLeavesSchedulerAlone ==
    /\ [](~need_ios => (nPoll = 0 /\ nRun = 0 /\ nPost = 0 /\ waitOn # "caller"))
    /\ [][(~need_ios /\ pc' # pc) => iosQ' = iosQ]_vars

\* (F,T) returned the exit code with the supplied io_service's work pending.
BlockingLeavesSchedulerAloneWitness ==
    /\ pc = "done" /\ impl = "FT" /\ valid /\ nWait = 1
    /\ ret = pcode /\ Len(iosQ) = MaxOther

\* C10: the call returns -1 if and only if the creation of the child failed.
SentinelIffCreationFailed ==
    pc = "done" => (ret = Sentinel <=> ~valid)

\* The stores of the flag waiting in the supplied io_service's queue.
PendingStores ==
    Cardinality({i \in 1..Len(iosQ) : iosQ[i] = "set"})

\* C11 as stated: in (T,T) the call only polls the supplied io_service: it
\* never adds a work item of its own to it and never runs it.
OnlyDrainsSupplied ==
    impl = "TT" => (nPost = 0 /\ nRun = 0 /\ PendingStores = 0)

\* C11 amended: in (T,T) the call itself only polls the supplied io_service
\* and never runs it; the work it adds is the one store of the flag that
\* each execution of its on_exit lambda posts, and nothing else.
DrainsAndPostsTheStore ==
    impl = "TT" =>
        /\ nRun = 0 /\ nWait = 0
        /\ nPost = hookRuns
        /\ PendingStores <= nPost
        /\ (nChild > 0 /\ ~valid) => nPost = 0

\* The store posted by the lambda waits in the queue during a poll.
DrainsAndPostsWitness ==
    /\ impl = "TT" /\ pc = "poll" /\ nPost = 1 /\ PendingStores = 1

\* C12: each call constructs exactly one child, on every path: a failed
\* creation is not retried and a created child is not followed by another.
ExactlyOneChild ==
    /\ nChild <= 1
    /\ pc \notin {"idle", "entry"} => nChild = 1

\* A call whose only creation failed has returned.
ExactlyOneChildWitness ==
    /\ pc = "done" /\ impl = "FF" /\ ~valid /\ nChild = 1

\* C13: a call given an io_service that nothing else is running has called
\* io_service::run on it by the time it returns.
RunsSuppliedWhenInactive ==
    (pc = "done" /\ has_ios /\ valid /\ ~driver) => nRun >= 1

\* C14: a call of (T,T) given a yield context has had that context resumed
\* by its completion hook when it returns.
HookResumesToken ==
    (pc = "done" /\ impl = "TT" /\ token /\ valid) => nResume >= 1

\* The permutations of 1..n.
Perms(n) ==
    {f \in [1..n -> 1..n] : \A i, j \in 1..n : f[i] = f[j] => i = j}

\* The option list o in the order f.
Permuted(o, f) ==
    [i \in 1..Len(o) |-> o[f[i]]]

\* C15: the two tags, and so the overload entered, are the same for every
\* order of the options, and every option list falls in exactly one of the
\* four cells, the one the call enters.
ClassificationOrderIndependent ==
    /\ \A f \in Perms(Len(opts)) :
          /\ NeedsIoService(Permuted(opts, f)) = NeedsIoService(opts)
          /\ HasIoService(Permuted(opts, f)) = HasIoService(opts)
          /\ Dispatch(Permuted(opts, f)) = Dispatch(opts)
    /\ Dispatch(opts) \in {"TT", "TF", "FT", "FF"}
    /\ pc # "idle" => impl = Select(need_ios, has_ios)

\* A call is about to classify options whose asynchronous one and whose
\* io_service come after the program.
ClassificationWitness ==
    /\ pc = "idle" /\ opts = <<"exe", "on_exit", "ios">>

\* C16 as stated: in (T,T), once the completion hook has run the call
\* returns, whatever other work keeps being posted to the io_service.
DriveSuppliedReturns ==
    (impl = "TT" /\ valid /\ hookRuns >= 1) ~> (pc = "done")

\* C16 amended: in (T,T), once the completion hook has run the call returns,
\* provided every poll of the call returns; work posted between two polls
\* does not keep the call from returning.
DriveSuppliedReturnsIfPollsReturn ==
    ([]<>(pc # "poll")) =>
        ((impl = "TT" /\ valid /\ hookRuns >= 1) ~> (pc = "done"))

\* (T,T) returned after several polls with the io_service's queue full.
DriveSuppliedReturnsWitness ==
    /\ pc = "done" /\ impl = "TT" /\ valid /\ hookRuns >= 1
    /\ nPoll >= 2 /\ Len(iosQ) >= MaxQueue

\* The call of (T,T) is in its wait loop.
InLoop ==
    impl = "TT" /\ pc \in {"loop", "poll"}

\* C17 as stated: the wait loop of (T,T) is left only with the flag true;
\* while the completion hook has not run the call does not return, and a
\* call whose hook never runs calls poll again and again, without end.
NoWayOutAndPollsForever ==
    /\ [][(InLoop /\ ~exited) => InLoop']_vars
    /\ [](impl = "TT" /\ valid /\ hookRuns = 0 => pc # "done")
    /\ (<>[](InLoop /\ hookRuns = 0)) => []<><<TT_Loop>>_vars

\* C17 amended: the wait loop of (T,T) is left only with the flag true;
\* while the completion hook has not run the call does not return, and a
\* call whose hook never runs calls poll again and again, without end,
\* provided every poll returns; a poll that work keeps reaching never
\* returns and is then the last one called.
NoWayOutButTheFlag ==
    /\ [][(InLoop /\ ~exited) => InLoop']_vars
    /\ [](impl = "TT" /\ valid /\ hookRuns = 0 => pc # "done")
    /\ (([]<>(pc # "poll")) /\ <>[](InLoop /\ hookRuns = 0))
          => []<><<TT_Loop>>_vars

\* (T,T) is polling once more for a process that still runs.
NoWayOutWitness ==
    /\ InLoop /\ pc = "poll" /\ valid /\ hookRuns = 0
    /\ pstate = "running" /\ nPoll = MaxPoll

\* C18: in (T,T) a completion delivered more than once does no harm: the
\* flag is never written after the call has returned and the call returns
\* the exit code of the process.
DuplicateNotificationHarmless ==
    /\ lateWrites = 0
    /\ (pc = "done" /\ impl = "TT" /\ valid) => ret = pcode

\* The completion handlers of the child waiting in the supplied
\* io_service's queue.
PendingHooks ==
    Cardinality({i \in 1..Len(iosQ) : iosQ[i] = "onexit"})

\* C19: in (T,T), when the completion has been delivered at most once, the
\* supplied io_service holds nothing of the call at either return: no store
\* of the flag, no completion handler; and no store is executed after the
\* return.
NothingOfTheCallLeftQueued ==
    (pc = "done" /\ impl = "TT" /\ notified <= 1) =>
        /\ PendingStores = 0
        /\ PendingHooks = 0
        /\ lateWrites = 0
        /\ waitOn = "none"

\* (T,T) returned after one completion, other work still queued.
NothingLeftWitness ==
    /\ pc = "done" /\ impl = "TT" /\ valid /\ notified = 1
    /\ hookRuns = 1 /\ iosQ # <<>>

====
